---- MODULE Spec2Model ----
(***************************************************************************)
(* A model of saga-go (src/saga.go): one sagaImpl shared by a few caller   *)
(* goroutines that call Execute, Abort, AddStep and the abort handle       *)
(* returned by New.  Every method is modelled at the granularity of its    *)
(* lock acquisition, its loop iterations and the start and return of each  *)
(* step action, so that other goroutines and the cancellation of the       *)
(* context can interleave wherever Go lets them.                           *)
(***************************************************************************)
EXTENDS Integers, Sequences, FiniteSets

\* ---------------------------------------------------------------- bounds
NumProcs == 2        \* caller goroutines
MaxCalls == 3        \* Execute / Abort / abort-handle calls over the whole run
MaxAddSteps == 3     \* AddStep calls over the whole run

Procs == 1..NumProcs

\* ------------------------------------------------------- program constants
stateInitial == "Initial"
stateFinishing == "Finishing"
stateAborting == "Aborting"
stateFinished == "Finished"
sagaState == {stateInitial, stateFinishing, stateAborting, stateFinished}

\* The contexts callers pass: context.Background() is never done, the other
\* one can be cancelled (or reach its deadline) at any moment.
Contexts == {"background", "cancellable"}

\* ----------------------------------------------------------------- errors
Nil == [kind |-> "nil"]
\* ctx.Err() of a context that is done
CtxErr == [kind |-> "context canceled"]
\* the error a step's Execute returns when it fails
StepErr(index) == [kind |-> "execute failed", index |-> index]
\* the error a step's Compensate returns when it fails
CompErr(index) == [kind |-> "compensate failed", index |-> index]
\* fmt.Sprintf("step %d: %v", stepIndex, err)
StepMsg(stepIndex, e) == [fmt |-> "step %d: %v", index |-> stepIndex, err |-> e]
\* fmt.Sprintf("context cancelled during abort: %v", ctx.Err())
AbortCtxMsg(e) == [fmt |-> "context cancelled during abort: %v", err |-> e]
\* fmt.Errorf(prefix + ": [%s]", strings.Join(compensationErrs, "; "))
JoinErr(prefix, msgs) == [kind |-> "errorf", prefix |-> prefix, msgs |-> msgs]
SagaError(orig, comp) ==
    [kind |-> "SagaError", OriginalError |-> orig, CompensationError |-> comp]
\* fmt.Errorf("saga aborted")
AbortedErr == [kind |-> "saga aborted"]
\* fmt.Errorf("transaction rollback failed: %v, underlying error: %v", abortErr, *err)
RollbackErr(abortErr, held) ==
    [kind |-> "transaction rollback failed", abortErr |-> abortErr, underlying |-> held]

VARIABLES
    state,           \* sagaImpl.state
    steps,           \* sagaImpl.steps: the sequence of registered steps (their ids)
    completedSteps,  \* sagaImpl.completedSteps: 0-based indices into steps
    mu,              \* sagaImpl.mu: the set of goroutines holding it (empty or one)
    ctxDone,         \* whether the cancellable context is done
    pc,              \* each goroutine's position
    loc,             \* each goroutine's locals
    calls,           \* Execute / Abort / handle calls made so far
    nextStep,        \* AddStep calls made so far (gives each Step its id)
    log,             \* history: every step action that has returned
    running,         \* history: the step actions in progress
    returned         \* history: what the Execute and Abort calls so far returned

vars == <<state, steps, completedSteps, mu, ctxDone, pc, loc, calls, nextStep,
          log, running, returned>>

shared == <<state, steps, completedSteps>>
history == <<log, running, returned>>
\* the history the step actions write
acted == <<log, running>>

\* ------------------------------------------------------------ helpers
\* <-ctx.Done() is ready
Done(ctx) == ctx = "cancellable" /\ ctxDone

\* s.steps[stepIndex] (Go indices are 0-based)
StepAt(stepIndex) == steps[stepIndex + 1]
\* s.completedSteps[i]
CompletedAt(i) == completedSteps[i + 1]

NoLocals ==
    [op |-> "none", ctx |-> "background", i |-> 0, failedStep |-> 0,
     origErr |-> Nil, compensationErrs |-> <<>>, during |-> {}, late |-> FALSE]

\* A saga whose methods do not take the mutex.
CanLock_NoMutex == TRUE

\* s.mu.Lock() succeeds only when nobody holds the mutex
CanLock == mu = {}

Init ==
    /\ state = stateInitial
    /\ steps = <<>>
    /\ completedSteps = <<>>
    /\ mu = {}
    /\ ctxDone = FALSE
    /\ pc = [p \in Procs |-> "idle"]
    /\ loc = [p \in Procs |-> NoLocals]
    /\ calls = 0
    /\ nextStep = 0
    /\ log = <<>>
    /\ running = {}
    /\ returned = {}

\* ------------------------------------------------------------ the context
\* cancel(), or the deadline of the context passing
Cancel ==
    /\ ~ctxDone
    /\ ctxDone' = TRUE
    /\ UNCHANGED <<shared, mu, pc, loc, calls, nextStep, history>>

\* The method returns: the deferred s.mu.Unlock() runs and the caller goes on.
Unlock(p) ==
    /\ mu' = mu \ {p}
    /\ loc' = [loc EXCEPT ![p] = NoLocals]
    /\ pc' = [pc EXCEPT ![p] = "idle"]

\* Execute or Abort returns v to its caller.  noop tells whether the method
\* returned from its state check, late whether the call was made after the
\* Execute that ran the saga had returned.
Return(p, v, noop) ==
    /\ Unlock(p)
    /\ returned' = returned \cup
          {[op |-> loc[p].op, ret |-> v, noop |-> noop, late |-> loc[p].late]}

\* ------------------------------------------------------------ the callers
\* A caller goroutine calls s.Execute(ctx) and reaches s.mu.Lock().
CallExecute(p) ==
    /\ pc[p] = "idle"
    /\ calls < MaxCalls
    /\ loc' = [loc EXCEPT ![p] = [NoLocals EXCEPT !.op = "Execute"]]
    /\ pc' = [pc EXCEPT ![p] = "E_lock"]
    /\ calls' = calls + 1
    /\ UNCHANGED <<shared, mu, ctxDone, nextStep, history>>

\* A caller goroutine calls s.Abort(ctx), directly or through the abort
\* handle abort(ctx, &err), and reaches s.mu.Lock().  The call remembers (as
\* history) the forward action in progress when it was made and whether the
\* Execute that ran the saga had already returned.
CallAbort(p) ==
    /\ pc[p] = "idle"
    /\ calls < MaxCalls
    /\ loc' = [loc EXCEPT ![p] = [NoLocals EXCEPT
                   !.op = "Abort",
                   !.during = {r.index : r \in {q \in running : q.kind = "Execute"}},
                   !.late = \E r \in returned : r.op = "Execute" /\ ~r.noop]]
    /\ pc' = [pc EXCEPT ![p] = "A_lock"]
    /\ calls' = calls + 1
    /\ UNCHANGED <<shared, mu, ctxDone, nextStep, history>>

\* ------------------------------------------------------------ AddStep
\* AddStep without the state check (as in the first version of the package).
AddStepAllowed_Always == TRUE

\* if s.state == stateInitial
AddStepAllowed == state = stateInitial

\* A caller goroutine calls s.AddStep(step) with a fresh Step (the nextStep-th
\* one made): the whole of AddStep, from the moment s.mu.Lock() succeeds.  An
\* AddStep that waits for the mutex acts as one called when the mutex is free.
AddStep(p) ==
    /\ pc[p] = "idle"
    /\ nextStep < MaxAddSteps
    /\ CanLock
    /\ nextStep' = nextStep + 1
    /\ steps' = IF AddStepAllowed THEN Append(steps, nextStep + 1) ELSE steps
    /\ Unlock(p)
    /\ UNCHANGED <<state, completedSteps, ctxDone, calls, history>>

\* ------------------------------------------------------------ Execute
\* Execute without the state check (as in the first version of the package).
ExecuteIsNoOp_Never == FALSE
\* a state check that only rejects a saga marked finished
ExecuteIsNoOp_OnlyFinished == state = stateFinished
\* a state check that only rejects a saga that is executing
ExecuteIsNoOp_OnlyFinishing == state = stateFinishing

\* if s.state != stateInitial { return nil }
ExecuteIsNoOp == state # stateInitial

\* Execute from the moment s.mu.Lock() succeeds up to its loop.  The ctx
\* argument of the call is drawn here, before the method first reads it.
ExecuteEnter(p) ==
    /\ pc[p] = "E_lock"
    /\ CanLock
    /\ IF ExecuteIsNoOp
         THEN /\ Return(p, Nil, TRUE)
              /\ UNCHANGED state
         ELSE /\ state' = stateFinishing
              /\ mu' = mu \cup {p}
              /\ \E ctx \in Contexts : loc' = [loc EXCEPT ![p].ctx = ctx, ![p].i = 0]
              /\ pc' = [pc EXCEPT ![p] = "E_loop"]
              /\ UNCHANGED returned
    /\ UNCHANGED <<steps, completedSteps, ctxDone, calls, nextStep, acted>>

\* for i, step := range s.steps: the loop is over when i has passed the last step
RangeOver(i) == i >= Len(steps)

\* One iteration of the loop up to the call of step.Execute(ctx): the end of
\* the range, the select on ctx.Done(), or the start of the forward action.
ExecuteLoop(p) ==
    /\ pc[p] = "E_loop"
    /\ IF RangeOver(loc[p].i)
         THEN /\ Return(p, Nil, FALSE)
              /\ UNCHANGED running
         ELSE IF Done(loc[p].ctx)
         THEN /\ Return(p, CtxErr, FALSE)
              /\ UNCHANGED running
         ELSE /\ running' = running \cup
                    {[proc |-> p, kind |-> "Execute", index |-> loc[p].i]}
              /\ pc' = [pc EXCEPT ![p] = "E_run"]
              /\ UNCHANGED <<mu, loc, returned>>
    /\ UNCHANGED <<shared, ctxDone, calls, nextStep, log>>

\* compensate walks s.completedSteps downwards from i and skips
\* (continue) every entry that is not before failedStep.
RECURSIVE SkipNotBefore(_, _)
SkipNotBefore(i, failedStep) ==
    IF i < 0 THEN i
    ELSE IF CompletedAt(i) >= failedStep THEN SkipNotBefore(i - 1, failedStep)
    ELSE i

\* The record of a step action that has returned.
Event(kind, by, index, ok) ==
    [kind |-> kind, by |-> by, index |-> index, step |-> StepAt(index), ok |-> ok]

\* step.Execute(ctx) returns, with the index recorded before the error is looked at.
ExecuteStepReturn_AppendFirst(p) ==
    /\ pc[p] = "E_run"
    /\ running' = running \ {[proc |-> p, kind |-> "Execute", index |-> loc[p].i]}
    /\ completedSteps' = Append(completedSteps, loc[p].i)
    /\ \E ok \in BOOLEAN :
          /\ log' = Append(log, Event("Execute", "Execute", loc[p].i, ok))
          /\ IF ok
               THEN /\ loc' = [loc EXCEPT ![p].i = loc[p].i + 1]
                    /\ pc' = [pc EXCEPT ![p] = "E_loop"]
               ELSE /\ loc' = [loc EXCEPT ![p].failedStep = loc[p].i,
                                          ![p].origErr = StepErr(loc[p].i),
                                          ![p].compensationErrs = <<>>,
                                          ![p].i = Len(completedSteps') - 1]
                    /\ pc' = [pc EXCEPT ![p] = "C_loop"]
    /\ UNCHANGED <<state, steps, mu, ctxDone, calls, nextStep, returned>>

\* step.Execute(ctx) returns: on an error Execute enters s.compensate(ctx, i, err),
\* otherwise it appends i to s.completedSteps and goes on with the next step.
ExecuteStepReturn(p) ==
    /\ pc[p] = "E_run"
    /\ running' = running \ {[proc |-> p, kind |-> "Execute", index |-> loc[p].i]}
    /\ \E ok \in BOOLEAN :
          /\ log' = Append(log, Event("Execute", "Execute", loc[p].i, ok))
          /\ IF ok
               THEN /\ completedSteps' = Append(completedSteps, loc[p].i)
                    /\ loc' = [loc EXCEPT ![p].i = loc[p].i + 1]
                    /\ pc' = [pc EXCEPT ![p] = "E_loop"]
               ELSE /\ loc' = [loc EXCEPT ![p].failedStep = loc[p].i,
                                          ![p].origErr = StepErr(loc[p].i),
                                          ![p].compensationErrs = <<>>,
                                          ![p].i = Len(completedSteps) - 1]
                    /\ pc' = [pc EXCEPT ![p] = "C_loop"]
                    /\ UNCHANGED completedSteps
    /\ UNCHANGED <<state, steps, mu, ctxDone, calls, nextStep, returned>>

\* ------------------------------------------------------------ compensate
\* The value compensate returns after its loop.
CompensateResult(origErr, compensationErrs) ==
    IF Len(compensationErrs) > 0
      THEN SagaError(origErr, JoinErr("compensation errors", compensationErrs))
      ELSE origErr

\* One iteration of compensate's loop up to the call of Compensate(ctx).
CompensateLoop(p) ==
    /\ pc[p] = "C_loop"
    /\ LET i == SkipNotBefore(loc[p].i, loc[p].failedStep) IN
       IF i < 0
         THEN /\ Return(p, CompensateResult(loc[p].origErr, loc[p].compensationErrs),
                         FALSE)
              /\ UNCHANGED running
         ELSE IF Done(loc[p].ctx)
         THEN /\ Return(p, CtxErr, FALSE)
              /\ UNCHANGED running
         ELSE /\ running' = running \cup
                    {[proc |-> p, kind |-> "Compensate", index |-> CompletedAt(i)]}
              /\ loc' = [loc EXCEPT ![p].i = i]
              /\ pc' = [pc EXCEPT ![p] = "C_run"]
              /\ UNCHANGED <<mu, returned>>
    /\ UNCHANGED <<shared, ctxDone, calls, nextStep, log>>

\* s.steps[stepIndex].Compensate(ctx) returns inside compensate.
CompensateStepReturn(p) ==
    /\ pc[p] = "C_run"
    /\ LET stepIndex == CompletedAt(loc[p].i) IN
       /\ running' = running \ {[proc |-> p, kind |-> "Compensate", index |-> stepIndex]}
       /\ \E ok \in BOOLEAN :
             /\ log' = Append(log, Event("Compensate", "Execute", stepIndex, ok))
             /\ loc' = [loc EXCEPT
                   ![p].compensationErrs =
                       IF ok THEN @ ELSE Append(@, StepMsg(stepIndex, CompErr(stepIndex))),
                   ![p].i = loc[p].i - 1]
    /\ pc' = [pc EXCEPT ![p] = "C_loop"]
    /\ UNCHANGED <<shared, mu, ctxDone, calls, nextStep, returned>>

\* ------------------------------------------------------------ Abort
\* a state check that only rejects a saga marked finished
AbortIsNoOp_OnlyFinished == state = stateFinished

\* if s.state == stateFinished || s.state == stateAborting { return nil }
AbortIsNoOp == state = stateFinished \/ state = stateAborting

\* Abort from the moment s.mu.Lock() succeeds up to its loop: the state check,
\* the transition to stateAborting and the early return when nothing has
\* completed.  The ctx argument of the call is drawn here, before the method
\* first reads it.
AbortEnter(p) ==
    /\ pc[p] = "A_lock"
    /\ CanLock
    /\ IF AbortIsNoOp
         THEN /\ Return(p, Nil, TRUE)
              /\ UNCHANGED state
         ELSE /\ state' = stateAborting
              /\ IF Len(completedSteps) = 0
                   THEN Return(p, Nil, FALSE)
                   ELSE /\ mu' = mu \cup {p}
                        /\ \E ctx \in Contexts :
                              loc' = [loc EXCEPT ![p].ctx = ctx,
                                                 ![p].compensationErrs = <<>>,
                                                 ![p].i = Len(completedSteps) - 1]
                        /\ pc' = [pc EXCEPT ![p] = "A_loop"]
                        /\ UNCHANGED returned
    /\ UNCHANGED <<steps, completedSteps, ctxDone, calls, nextStep, acted>>

\* The value Abort returns after its loop.
AbortResult(compensationErrs) ==
    IF Len(compensationErrs) > 0
      THEN SagaError(AbortedErr, JoinErr("abort errors", compensationErrs))
      ELSE Nil

\* Abort without the reset of s.completedSteps.
AbortReset_Keep == completedSteps

\* What Abort leaves in s.completedSteps after its loop.
AbortReset == <<>>

\* One iteration of Abort's loop up to the call of Compensate(ctx); when the
\* loop ends (i < 0, or the break after the context was found done) the tail of
\* Abort runs: s.completedSteps = nil and the return.
AbortLoop(p) ==
    /\ pc[p] = "A_loop"
    /\ IF loc[p].i < 0
         THEN /\ completedSteps' = AbortReset
              /\ Return(p, AbortResult(loc[p].compensationErrs), FALSE)
              /\ UNCHANGED running
         ELSE IF Done(loc[p].ctx)
         THEN /\ completedSteps' = AbortReset
              /\ Return(p, AbortResult(Append(loc[p].compensationErrs,
                                              AbortCtxMsg(CtxErr))), FALSE)
              /\ UNCHANGED running
         ELSE /\ running' = running \cup
                    {[proc |-> p, kind |-> "Compensate", index |-> CompletedAt(loc[p].i)]}
              /\ pc' = [pc EXCEPT ![p] = "A_run"]
              /\ UNCHANGED <<completedSteps, mu, loc, returned>>
    /\ UNCHANGED <<state, steps, ctxDone, calls, nextStep, log>>

\* s.steps[stepIndex].Compensate(ctx) returns inside Abort.
AbortStepReturn(p) ==
    /\ pc[p] = "A_run"
    /\ LET stepIndex == CompletedAt(loc[p].i) IN
       /\ running' = running \ {[proc |-> p, kind |-> "Compensate", index |-> stepIndex]}
       /\ \E ok \in BOOLEAN :
             /\ log' = Append(log, Event("Compensate", "Abort", stepIndex, ok))
             /\ loc' = [loc EXCEPT
                   ![p].compensationErrs =
                       IF ok THEN @ ELSE Append(@, StepMsg(stepIndex, CompErr(stepIndex))),
                   ![p].i = loc[p].i - 1]
    /\ pc' = [pc EXCEPT ![p] = "A_loop"]
    /\ UNCHANGED <<shared, mu, ctxDone, calls, nextStep, returned>>

\* ------------------------------------------------------------ the abort handle
\* The errors a caller may hold in the variable it passes to the abort handle.
HeldErrs == {Nil, [kind |-> "caller error"]}

\* A handle whose message leaves out the error the slot held.
AbortHandle_DropsHeld(held, abortErr) ==
    IF abortErr # Nil THEN RollbackErr(abortErr, Nil) ELSE held

\* abort := func(ctx, err): what *err holds after s.Abort(ctx) returned abortErr.
\* The handle calls s.Abort like any other caller and then only writes the
\* caller's error slot, which the saga never reads.
AbortHandle(held, abortErr) ==
    IF abortErr # Nil THEN RollbackErr(abortErr, held) ELSE held

\* What the handle leaves in the slot, for every error the caller may hold and
\* every value an effective or no-op Abort has returned so far.
Handled ==
    {[held |-> h, abortErr |-> r.ret, err |-> AbortHandle(h, r.ret)] :
        h \in HeldErrs, r \in {x \in returned : x.op = "Abort"}}

\* ------------------------------------------------------------ specification
Next ==
    \/ Cancel
    \/ \E p \in Procs : CallExecute(p)
    \/ \E p \in Procs : CallAbort(p)
    \/ \E p \in Procs : AddStep(p)
    \/ \E p \in Procs : ExecuteEnter(p)
    \/ \E p \in Procs : ExecuteLoop(p)
    \/ \E p \in Procs : ExecuteStepReturn(p)
    \/ \E p \in Procs : CompensateLoop(p)
    \/ \E p \in Procs : CompensateStepReturn(p)
    \/ \E p \in Procs : AbortEnter(p)
    \/ \E p \in Procs : AbortLoop(p)
    \/ \E p \in Procs : AbortStepReturn(p)

Spec == Init /\ [][Next]_vars

TypeOK ==
    /\ state \in sagaState
    /\ \A n \in 1..Len(steps) : steps[n] \in 1..MaxAddSteps
    /\ \A n \in 1..Len(completedSteps) : completedSteps[n] \in 0..(Len(steps) - 1)
    /\ mu \subseteq Procs
    /\ ctxDone \in BOOLEAN
    /\ calls \in 0..MaxCalls
    /\ nextStep \in 0..MaxAddSteps

\* ------------------------------------------------------------ observations
\* The forward actions that have returned, in order.
Forwards == SelectSeq(log, LAMBDA e : e.kind = "Execute")
\* The compensation actions that have returned, in order, and those a given
\* method invoked.
Compensations == SelectSeq(log, LAMBDA e : e.kind = "Compensate")
CompensationsBy(by) == SelectSeq(log, LAMBDA e : e.kind = "Compensate" /\ e.by = by)
IndexOf(events) == [n \in 1..Len(events) |-> events[n].index]
\* The step indices whose forward action returned success, in completion order.
SucceededSeq == IndexOf(SelectSeq(Forwards, LAMBDA e : e.ok))
Succeeded == {SucceededSeq[n] : n \in 1..Len(SucceededSeq)}
\* The step indices whose forward action returned an error.
Failed == {Forwards[n].index : n \in {m \in 1..Len(Forwards) : ~Forwards[m].ok}}
\* The step indices whose forward action has been started.
Started == {Forwards[n].index : n \in 1..Len(Forwards)}
              \cup {r.index : r \in {q \in running : q.kind = "Execute"}}
Reverse(seq) == [n \in 1..Len(seq) |-> seq[Len(seq) + 1 - n]]
\* <<k-1, k-2, ..., 0>>
DownFrom(k) == [n \in 1..k |-> k - n]
\* <<0, 1, ..., k-1>>
UpTo(k) == [n \in 1..k |-> n - 1]
IsPrefix(a, b) == Len(a) <= Len(b) /\ \A n \in 1..Len(a) : a[n] = b[n]
\* What the Execute call that ran the saga returned, once it has.
ExecuteReturns == {r.ret : r \in {x \in returned : x.op = "Execute" /\ ~x.noop}}
AbortReturns == {r.ret : r \in {x \in returned : x.op = "Abort"}}
\* How many times the compensation of step index has been invoked.
TimesCompensated(index) ==
    Cardinality({n \in 1..Len(Compensations) : Compensations[n].index = index})
      + Cardinality({r \in running : r.kind = "Compensate" /\ r.index = index})
\* The steps AddStep has dropped.
Discarded == (1..nextStep) \ {steps[n] : n \in 1..Len(steps)}
\* The "step <index>: <error>" messages of the failed compensations among events.
FailureMsgs(events) ==
    LET failed == SelectSeq(events, LAMBDA e : ~e.ok) IN
    [n \in 1..Len(failed) |-> StepMsg(failed[n].index, CompErr(failed[n].index))]

\* ------------------------------------------------------------ claims

\* C1: all-or-nothing. When Execute returns a non-nil error, every step whose
\* forward action returned success has had its compensation invoked, and the
\* compensations were invoked in the reverse of the order in which the forward
\* actions completed.
C1_AllOrNothing ==
    \A ret \in ExecuteReturns :
        ret # Nil => IndexOf(CompensationsBy("Execute")) = Reverse(SucceededSeq)

\* C2: when step k fails (index k-1 = f), exactly the compensations of the
\* steps before it run, in strict reverse order f-1, ..., 0; the compensation
\* of the failed step never runs and no forward action of a later step starts.
C2_FailureUnwind ==
    \A f \in Failed :
        /\ IsPrefix(IndexOf(CompensationsBy("Execute")), DownFrom(f))
        /\ ExecuteReturns # {} => IndexOf(CompensationsBy("Execute")) = DownFrom(f)
        /\ \A index \in Started : index <= f

\* C3: when every forward action has succeeded, Execute returns nil, every
\* forward action has run exactly once in registration order, and Execute has
\* invoked no compensation action.
AllForwardSucceeded == ExecuteReturns # {} /\ Succeeded = 0..(Len(steps) - 1)
C4_CancelUnwind ==
    (ExecuteReturns = {CtxErr} /\ Failed = {}) =>
        /\ SucceededSeq = IndexOf(Forwards)
        /\ IndexOf(CompensationsBy("Execute")) = Reverse(SucceededSeq)

\* C5: under every sequence and interleaving of Execute, Abort and abort-handle
\* calls, the compensation action of each step is invoked at most once.
C5_CompensateOnce ==
    \A index \in 0..(Len(steps) - 1) : TimesCompensated(index) <= 1

\* C6: when a compensation action fails during the unwind that follows failed
\* step f, the unwind continues to all earlier completed steps and Execute
\* returns a SagaError whose OriginalError is the failed step's error and
\* whose CompensationError lists every compensation failure as
\* "step <index>: <error>", in the order the compensations ran.
C6_CompensationFailure ==
    \A f \in Failed :
        (/\ ExecuteReturns # {}
         /\ \E n \in 1..Len(CompensationsBy("Execute")) :
               ~CompensationsBy("Execute")[n].ok)
        => /\ IndexOf(CompensationsBy("Execute")) = DownFrom(f)
           /\ ExecuteReturns =
                {SagaError(StepErr(f),
                           JoinErr("compensation errors",
                                   FailureMsgs(CompensationsBy("Execute"))))}

\* C7: AddStep appends only in the Initial state.  Once Execute or Abort has
\* taken the saga out of Initial, an AddStep call leaves the step sequence,
\* the state and the completed list unchanged, the step sequence never
\* changes again, and no action of a discarded step is ever invoked.
NoDiscardedInvoked ==
    /\ \A n \in 1..Len(log) : log[n].step \notin Discarded
    /\ \A r \in running : StepAt(r.index) \notin Discarded
C7_AddStepOnlyInitial ==
    [][/\ state # stateInitial => steps' = steps
       /\ (nextStep' # nextStep /\ state # stateInitial) =>
              (shared' = shared /\ acted' = acted)
       /\ (nextStep' # nextStep /\ state = stateInitial) =>
              steps' = Append(steps, nextStep')
       /\ NoDiscardedInvoked /\ NoDiscardedInvoked']_vars
C7_Witness ==
    /\ Discarded # {}
    /\ Len(steps) >= 1
    /\ Len(Forwards) >= 1

\* C8: an Abort called from another goroutine while a forward action of
\* Execute is running takes effect as soon as that action finishes: no forward
\* action of a later step is started, the steps completed so far are
\* compensated, and Execute returns a non-nil error.
C8_AbortInterrupts ==
    \A q \in Procs : \A j \in loc[q].during :
        /\ \A index \in Started : index <= j
        /\ ExecuteReturns # {} =>
              /\ Nil \notin ExecuteReturns
              /\ \A index \in Succeeded : TimesCompensated(index) >= 1

\* C9: at most one forward or compensation action of the saga is in progress
\* at any time, a goroutine is inside a method body only while it alone holds
\* the mutex, and the state, the step list and the completed list change only
\* in steps of the goroutine that holds the mutex.
InMethod == {"E_loop", "E_run", "C_loop", "C_run", "A_loop", "A_run"}
Exclusion ==
    /\ Cardinality(running) <= 1
    /\ \A p \in Procs : pc[p] \in InMethod <=> p \in mu
    /\ Cardinality(mu) <= 1
C9_MutualExclusion ==
    [][/\ Exclusion /\ Exclusion'
       /\ \A p \in Procs :
             (shared' # shared /\ p \in mu) => (pc'[p] # pc[p] \/ loc'[p] # loc[p])]_vars
C9_Witness ==
    \E p, q \in Procs :
        /\ pc[p] = "E_run"
        /\ pc[q] = "A_lock"
        /\ Len(completedSteps) >= 1

\* C10: once Execute has returned nil after running all steps, an Abort call
\* made afterwards is a no-op: it returns nil from its state check and never
\* enters its compensation loop, so it invokes no compensation action.
C10_AbortAfterSuccess ==
    (AllForwardSucceeded /\ Len(steps) >= 1) =>
        /\ \A q \in Procs : loc[q].late => pc[q] = "A_lock"
        /\ \A r \in returned : (r.op = "Abort" /\ r.late) => (r.noop /\ r.ret = Nil)

\* C11: whenever a forward action has returned a failure, the error Execute
\* returns exposes that failure, as the returned error itself or as the
\* OriginalError of a SagaError, whatever the compensations and the context
\* did, cancellation during the unwind included.
C11_FailureSurfaced ==
    \A f \in Failed : \A ret \in ExecuteReturns :
        \/ ret = StepErr(f)
        \/ /\ ret # Nil
           /\ ret.kind = "SagaError"
           /\ ret.OriginalError = StepErr(f)

\* C12: only the Execute call that finds the saga in Initial is effective.
\* Every Execute call that takes the mutex when the state is not Initial
\* returns nil at once, starts no forward and no compensation action, and
\* leaves the state, the step list and the completed list unchanged.
C12_ExecuteOnce ==
    [][\A p \in Procs :
          (pc[p] = "E_lock" /\ pc'[p] # "E_lock" /\ state # stateInitial) =>
              /\ pc'[p] = "idle"
              /\ returned' = returned \cup
                    {[op |-> "Execute", ret |-> Nil, noop |-> TRUE, late |-> FALSE]}
              /\ shared' = shared
              /\ acted' = acted]_vars
C12_Witness ==
    /\ \E r \in returned : r.op = "Execute" /\ r.noop
    /\ Len(completedSteps) >= 1
    /\ state = stateFinishing

\* C13: Abort is idempotent.  Once an Abort call has returned, the state is
\* Aborting and stays so, and every further Abort call that takes the mutex
\* returns nil from its state check in that same step, starts no compensation
\* action and leaves the state, the step list and the completed list unchanged.
AbortHasReturned == \E r \in returned : r.op = "Abort"
C13_AbortIdempotent ==
    [][AbortHasReturned =>
          /\ state = stateAborting
          /\ state' = state
          /\ \A p \in Procs :
                (pc[p] = "A_lock" /\ pc'[p] # "A_lock") =>
                    /\ pc'[p] = "idle"
                    /\ returned' = returned \cup
                          {[op |-> "Abort", ret |-> Nil, noop |-> TRUE,
                            late |-> loc[p].late]}
                    /\ shared' = shared
                    /\ acted' = acted]_vars
C13_Witness ==
    /\ \E r \in returned : r.op = "Abort" /\ ~r.noop /\ r.ret # Nil
    /\ \E r \in returned : r.op = "Abort" /\ r.noop
    /\ Len(CompensationsBy("Abort")) >= 1

\* C14: an Abort call that finds the saga in Initial, before Execute has ever
\* run, returns nil without invoking any action; and once an Abort has
\* returned with no forward action started, no forward action is ever
\* started, even if Execute is called later.
InExecute == {p \in Procs : pc[p] \in {"E_loop", "E_run", "C_loop", "C_run"}}
AbortedUnstarted == AbortHasReturned /\ Started = {} /\ InExecute = {}
C14_AbortBeforeExecute ==
    [][/\ \A p \in Procs :
             (pc[p] = "A_lock" /\ pc'[p] # "A_lock" /\ state = stateInitial) =>
                 /\ pc'[p] = "idle"
                 /\ returned' = returned \cup
                       {[op |-> "Abort", ret |-> Nil, noop |-> FALSE,
                         late |-> loc[p].late]}
                 /\ acted' = acted
                 /\ log = <<>>
       /\ AbortedUnstarted => AbortedUnstarted']_vars
C14_Witness ==
    /\ AbortedUnstarted
    /\ Len(steps) >= 2
    /\ \E r \in returned : r.op = "Execute" /\ r.noop

\* C15: the lifecycle state reaches the terminal state Finished.  When the
\* Execute that ran the saga has returned (all steps succeeded, or after its
\* failure-triggered rollback) the state is Finished, and when an Abort call
\* that acted has returned the state is Finished.
C15_ReachesFinished ==
    /\ (ExecuteReturns # {} /\ mu = {}) => state = stateFinished
    /\ ((\E r \in returned : r.op = "Abort" /\ ~r.noop) /\ mu = {})
          => state = stateFinished

\* C16 as stated: in every reachable state a step index is in the completed
\* list if and only if that step's forward action has returned success.
CompletedSet == {completedSteps[n] : n \in 1..Len(completedSteps)}
C16_CompletedIffSucceeded == CompletedSet = Succeeded

\* C16, amended: the completed list holds only indices of steps whose forward
\* action has returned success (never a failed, unstarted or skipped step);
\* it holds all of them, in completion order, until an Abort call finishes its
\* compensation pass, which leaves the list empty from then on.
AbortHasActed == \E r \in returned : r.op = "Abort" /\ ~r.noop
C16_CompletedOnlySucceeded ==
    /\ CompletedSet \subseteq Succeeded
    /\ CompletedSet \cap Failed = {}
    /\ \/ completedSteps = SucceededSeq
       \/ completedSteps = <<>> /\ AbortHasActed
C16_Witness ==
    /\ completedSteps = <<>>
    /\ AbortHasActed
    /\ Succeeded # {}
    /\ Failed # {}

\* C17: in a compensation pass, of Execute's failure path and of Abort alike,
\* the context is checked before each compensation, so that no compensation
\* action is started once the context is done; and the error the interrupted
\* pass returns reports the cancellation together with the triggering failure
\* and the compensation failures recorded before the interruption.
ReportsInterruption(ret, trigger, events) ==
    /\ ret # Nil
    /\ ret.kind = "SagaError"
    /\ ret.OriginalError = trigger
    /\ IsPrefix(FailureMsgs(events), ret.CompensationError.msgs)
    /\ \E n \in 1..Len(ret.CompensationError.msgs) :
          ret.CompensationError.msgs[n].err = CtxErr
InterruptionReported ==
    /\ \A f \in Failed : \A ret \in ExecuteReturns :
          Len(CompensationsBy("Execute")) < f =>
              ReportsInterruption(ret, StepErr(f), CompensationsBy("Execute"))
    /\ \A r \in returned :
          (r.op = "Abort" /\ ~r.noop
             /\ Len(CompensationsBy("Abort")) < Len(SucceededSeq)) =>
              ReportsInterruption(r.ret, AbortedErr, CompensationsBy("Abort"))
C17_CancelledCompensation ==
    [][/\ \A r \in running' \ running :
             r.kind = "Compensate" => ~Done(loc[r.proc].ctx)
       /\ InterruptionReported']_vars

\* C18 as stated: an Abort call that finds completed steps has, when it
\* returns, compensated all of them in reverse completion order, going on
\* past failing compensations; the completed list is empty; and it has
\* returned a SagaError with OriginalError "saga aborted" if and only if some
\* compensation failed or the context was cancelled during the pass.
AbortPassDone == AbortHasActed /\ SucceededSeq # <<>>
AbortStopped == Len(CompensationsBy("Abort")) < Len(SucceededSeq)
C18_AbortCompensatesAll ==
    AbortPassDone =>
        /\ IndexOf(CompensationsBy("Abort")) = Reverse(SucceededSeq)
        /\ completedSteps = <<>>
        /\ \A r \in returned :
              (r.op = "Abort" /\ ~r.noop) =>
                  /\ r.ret # Nil <=>
                        \/ FailureMsgs(CompensationsBy("Abort")) # <<>>
                        \/ AbortStopped
                  /\ r.ret # Nil =>
                        (r.ret.kind = "SagaError" /\ r.ret.OriginalError = AbortedErr)

\* C18, amended: an Abort call that finds completed steps compensates them in
\* reverse completion order, going on past failing compensations, and stops
\* early only when it finds the context done before a compensation.  When it
\* returns the completed list is empty, and it returns a SagaError with
\* OriginalError "saga aborted" whose CompensationError lists the failures
\* (and the cancellation, if the pass was stopped) exactly when some
\* compensation failed or the pass was stopped; otherwise it returns nil.
AbortMsgs ==
    FailureMsgs(CompensationsBy("Abort")) \o
        (IF AbortStopped THEN <<AbortCtxMsg(CtxErr)>> ELSE <<>>)
C18_AbortPass ==
    /\ IsPrefix(IndexOf(CompensationsBy("Abort")), Reverse(SucceededSeq))
    /\ AbortPassDone =>
          /\ AbortStopped => ctxDone
          /\ completedSteps = <<>>
          /\ \A r \in returned :
                (r.op = "Abort" /\ ~r.noop) =>
                    r.ret = IF AbortMsgs = <<>>
                              THEN Nil
                              ELSE SagaError(AbortedErr,
                                             JoinErr("abort errors", AbortMsgs))
C18_Witness ==
    /\ AbortPassDone
    /\ ~AbortStopped
    /\ Len(CompensationsBy("Abort")) >= 2
    /\ ~CompensationsBy("Abort")[1].ok
    /\ CompensationsBy("Abort")[2].ok

\* C19: the abort handle returned by New writes the caller's error slot only
\* when Abort returns an error: the slot then holds a "transaction rollback
\* failed" error carrying both the abort error and the error the slot held
\* before; when Abort returns nil the slot is left as it was.
C19_AbortHandle ==
    \A h \in Handled :
        /\ h.abortErr = Nil => h.err = h.held
        /\ h.abortErr # Nil =>
              /\ h.err.kind = "transaction rollback failed"
              /\ h.err.abortErr = h.abortErr
              /\ h.err.underlying = h.held
C19_Witness ==
    /\ \E h \in Handled : h.abortErr # Nil /\ h.held # Nil
    /\ \E h \in Handled : h.abortErr = Nil /\ h.held # Nil

\* C20: in every reachable state the completed list holds strictly increasing
\* (hence duplicate-free) indices, each a valid position in the step list;
\* forward actions run in registration order and each step's forward action
\* is invoked at most once over the whole life of the saga.
C20_CompletedOrdered ==
    /\ \A n, m \in 1..Len(completedSteps) :
          n < m => completedSteps[n] < completedSteps[m]
    /\ CompletedSet \subseteq 0..(Len(steps) - 1)
    /\ IndexOf(Forwards) = UpTo(Len(Forwards))
    /\ Len(Forwards) <= Len(steps)
    /\ \A r \in running : r.kind = "Execute" => r.index = Len(Forwards)
C20_Witness ==
    /\ Len(steps) = 3
    /\ completedSteps = <<0, 1>>
    /\ Len(Forwards) = 3
    /\ \E r \in returned : r.op = "Execute" /\ r.noop

====
